---- MODULE Spec2Model ----
(***************************************************************************)
(* GF(256) arithmetic engine of cm256 (gf256_nosimd.cpp): the process-wide *)
(* field context GF256Ctx, its one-time construction by gf256_init_, and   *)
(* the byte-at-a-time buffer primitives that read the tables.              *)
(***************************************************************************)
EXTENDS Integers, Sequences, FiniteSets

VARIABLES
    littleEndian,      \* byte order of the runtime the library runs on
    Initialized,       \* static bool Initialized
    Polynomial,        \* GF256Ctx.Polynomial
    GF256_EXP_TABLE,   \* GF256Ctx.GF256_EXP_TABLE, indices 0 .. 4*255-1
    GF256_LOG_TABLE,   \* GF256Ctx.GF256_LOG_TABLE, indices 0 .. 255 (uint16_t)
    GF256_MUL_TABLE,   \* GF256Ctx.GF256_MUL_TABLE, [y][x] for offset (y << 8) + x
    GF256_DIV_TABLE,   \* GF256Ctx.GF256_DIV_TABLE, [y][x] for offset (y << 8) + x
    GF256_INV_TABLE,   \* GF256Ctx.GF256_INV_TABLE, indices 0 .. 255
    lastCall,          \* << >>, or the latest gf256_init_ call: its version
                       \* argument, the Initialized flag it found, its status
    buildLog,          \* table-building steps executed so far, in order
    op,                \* the latest buffer primitive called, with y and bytes
    vz,                \* destination buffer after the latest buffer primitive
    vx,                \* source buffer after the latest buffer primitive
    old_vz,            \* destination buffer before the latest buffer primitive
    old_vx,            \* source buffer before the latest buffer primitive
    examined           \* the field elements a caller has picked to examine

ctx == <<Polynomial, GF256_EXP_TABLE, GF256_LOG_TABLE, GF256_MUL_TABLE,
         GF256_DIV_TABLE, GF256_INV_TABLE>>
bufs == <<op, vz, vx, old_vz, old_vx>>
vars == <<littleEndian, Initialized, ctx, lastCall, buildLog, bufs, examined>>

(***************************************************************************)
(* Bounds of the model                                                     *)
(***************************************************************************)
\* Length of the caller's buffers; a call passes bytes in 0 .. MaxBytes
MaxBytes == 2

Byte == 0 .. 255

\* What the caller's buffers hold before a call: the destination is either
\* clear or filled with a pattern, the source holds 0x53, 0xFF, 0xAB, ...
DstBufs == { [i \in 1 .. MaxBytes |-> 0],
             [i \in 1 .. MaxBytes |-> (165 + 37 * (i - 1)) % 256] }
SrcBufs == { [i \in 1 .. MaxBytes |-> (83 + 172 * (i - 1)) % 256],
             [i \in 1 .. MaxBytes |-> (i - 1) % 256] }
\* Scalars passed as y: both shortcut values and several table rows
Scalars == {0, 1, 2, 3, 83, 202, 255}

(***************************************************************************)
(* Integer helpers for C's bitwise operators                               *)
(***************************************************************************)
RECURSIVE BitXor(_, _)
BitXor(a, b) ==
    IF a = 0 THEN b
    ELSE IF b = 0 THEN a
    ELSE 2 * BitXor(a \div 2, b \div 2) + (((a % 2) + (b % 2)) % 2)

RECURSIVE BitOr(_, _)
BitOr(a, b) ==
    IF a = 0 THEN b
    ELSE IF b = 0 THEN a
    ELSE 2 * BitOr(a \div 2, b \div 2) + (IF a % 2 = 1 \/ b % 2 = 1 THEN 1 ELSE 0)

U8(v) == v % 256
U16(v) == v % 65536

(***************************************************************************)
(* Generator polynomial                                                    *)
(***************************************************************************)
GF256_GEN_POLY_COUNT == 16

GF256_GEN_POLY ==
    LET t == << 142, 149, 150, 166, 175, 177, 178, 180,
                184, 195, 198, 212, 225, 231, 243, 250 >>
    IN  [i \in 0 .. GF256_GEN_POLY_COUNT - 1 |-> t[i + 1]]

DefaultPolynomialIndex == 3

\* Faulty variant: the low bit of the polynomial is not set
gf255_poly_init_NoLowBit(polynomialIndex) ==
    LET idx == IF polynomialIndex < 0 \/ polynomialIndex >= GF256_GEN_POLY_COUNT
               THEN 0 ELSE polynomialIndex
    IN  GF256_GEN_POLY[idx] * 2

\* The value gf255_poly_init stores in GF256Ctx.Polynomial
gf255_poly_init(polynomialIndex) ==
    LET idx == IF polynomialIndex < 0 \/ polynomialIndex >= GF256_GEN_POLY_COUNT
               THEN 0 ELSE polynomialIndex
    IN  BitOr(GF256_GEN_POLY[idx] * 2, 1)

(***************************************************************************)
(* Exponential and log tables                                              *)
(***************************************************************************)
ExpIndex == 0 .. 4 * 255 - 1

\* Faulty variant: the overflowing value is truncated, never reduced
NextPower_NoReduce(poly, prev) == U8(prev * 2)

\* Lines 76-79: the next power of two, reduced by the polynomial on overflow
NextPower(poly, prev) ==
    LET next == prev * 2
    IN  U8(IF next >= 256 THEN BitXor(next, poly) ELSE next)

\* One iteration of for (jj = 1; jj < 255; ++jj) on the loop state
ExpLogStep(poly, st) ==
    LET e == NextPower(poly, st.exptab[st.jj - 1])
    IN  [jj     |-> st.jj + 1,
         exptab |-> [st.exptab EXCEPT ![st.jj] = e],
         logtab |-> [st.logtab EXCEPT ![e] = U16(st.jj)]]

\* The iterations from st.jj up to (not including) last
RECURSIVE ExpLogLoop(_, _, _)
ExpLogLoop(poly, st, last) ==
    IF st.jj >= last THEN st
    ELSE ExpLogLoop(poly, ExpLogStep(poly, st), last)

\* The same loop, evaluated in segments of 16 iterations to keep the
\* evaluation shallow
RECURSIVE ExpLogLoopTo(_, _, _)
ExpLogLoopTo(poly, st, last) ==
    IF last - st.jj <= 16 THEN ExpLogLoop(poly, st, last)
    ELSE ExpLogLoopTo(poly, ExpLogLoop(poly, st, st.jj + 16), last)

\* Upper bound of the first loop: jj < 255
ExpLogLast == 255

\* The tables gf256_explog_init leaves, from the polynomial and the tables before
gf256_explog_init(poly, exptab0, logtab0) ==
    LET first == ExpLogLoopTo(poly,
                     [jj     |-> 1,
                      exptab |-> [exptab0 EXCEPT ![0] = 1],
                      logtab |-> [logtab0 EXCEPT ![0] = 512]], ExpLogLast)
        e255  == [first.exptab EXCEPT ![255] = first.exptab[0]]
        l255  == [first.logtab EXCEPT ![e255[255]] = 255]
        exptab == [jj \in ExpIndex |->
                     IF jj >= 256 /\ jj < 2 * 255 THEN e255[jj % 255]
                     ELSE IF jj = 2 * 255 THEN 1
                     ELSE IF jj >= 2 * 255 + 1 THEN 0
                     ELSE e255[jj]]
    IN  [exptab |-> exptab, logtab |-> l255]

(***************************************************************************)
(* Multiply and divide tables                                              *)
(***************************************************************************)
\* The 256 * 256 bytes of a table are kept as 256 subtables of 256 bytes:
\* subtable y starts at offset y << 8, so table[(y << 8) + x] is tab[y][x].

\* Faulty variant: the logarithm of y is one too large
log_y_OffByOne(logtab, y) == U8(logtab[y] + 1)

\* const uint8_t log_y = static_cast<uint8_t>(GF256_LOG_TABLE[y])
log_y(logtab, y) == U8(logtab[y])

\* Faulty variant: the logarithm of 1/y is one too small
log_yn_OffByOne(logtab, y) == U8(254 - log_y(logtab, y))

\* const uint8_t log_yn = 255 - log_y
log_yn(logtab, y) == U8(255 - log_y(logtab, y))

\* Faulty variant: the multiply table is filled with the divide table's index
MulEntry_UsesInverseLog(exptab, logtab, y, x) ==
    exptab[logtab[x] + log_yn(logtab, y)]

\* m[x] of subtable y, for y >= 1 and x >= 1
MulEntry(exptab, logtab, y, x) == exptab[logtab[x] + log_y(logtab, y)]
\* d[x] of subtable y, for y >= 1 and x >= 1
DivEntry(exptab, logtab, y, x) == exptab[logtab[x] + log_yn(logtab, y)]

\* The MUL and DIV tables gf256_muldiv_init leaves (every entry is written)
gf256_muldiv_init(exptab, logtab) ==
    [m |-> [y \in Byte |->
              IF y = 0 THEN [x \in Byte |-> 0]
              ELSE [x \in Byte |->
                      IF x = 0 THEN 0 ELSE MulEntry(exptab, logtab, y, x)]],
     d |-> [y \in Byte |->
              IF y = 0 THEN [x \in Byte |-> 0]
              ELSE [x \in Byte |->
                      IF x = 0 THEN 0 ELSE DivEntry(exptab, logtab, y, x)]]]

(***************************************************************************)
(* Inverse table                                                           *)
(***************************************************************************)
\* gf256_div(x, y) of gf256.h: x / y read from the divide table, whose
\* subtable is selected by the divisor y (inv[x] = div[x][1])
gf256_div(divtab, x, y) == divtab[y][x]

\* The INV table gf256_inv_init leaves
gf256_inv_init(divtab) == [x \in Byte |-> gf256_div(divtab, 1, U8(x))]

(***************************************************************************)
(* Initialization                                                          *)
(***************************************************************************)
\* The version identifier compiled into the library (a macro of gf256.h).
\* gf256_init_ only compares its argument with it, so it is kept symbolic.
GF256_VERSION == "GF256_VERSION"

\* The version arguments tried: the library's own and a different one
Versions == {GF256_VERSION, "another version"}

LittleEndianTestData == << 4, 3, 2, 1 >>

\* *reinterpret_cast<uint32_t*>(LittleEndianTestData) on this runtime
LoadU32(b) ==
    IF littleEndian
    THEN b[1] + 256 * b[2] + 65536 * b[3] + 16777216 * b[4]
    ELSE b[4] + 256 * b[3] + 65536 * b[2] + 16777216 * b[1]

\* 0x01020304 == the test data read as one 32-bit word
IsLittleEndian == 16909060 = LoadU32(LittleEndianTestData)

BuildOrder == << "gf255_poly_init", "gf256_explog_init",
                 "gf256_muldiv_init", "gf256_inv_init" >>

\* Lines 186-189: the four table-building steps, each reading what the
\* previous one stored
BuildTables ==
    LET poly == gf255_poly_init(DefaultPolynomialIndex)
        el   == gf256_explog_init(poly, GF256_EXP_TABLE, GF256_LOG_TABLE)
        md   == gf256_muldiv_init(el.exptab, el.logtab)
    IN  /\ Polynomial' = poly
        /\ GF256_EXP_TABLE' = el.exptab
        /\ GF256_LOG_TABLE' = el.logtab
        /\ GF256_MUL_TABLE' = md.m
        /\ GF256_DIV_TABLE' = md.d
        /\ GF256_INV_TABLE' = gf256_inv_init(md.d)
        /\ buildLog' = buildLog \o BuildOrder

\* Faulty variant: the version is not checked
VersionMismatch_Skipped(version) == FALSE

\* Line 167: the caller's header does not match the library
VersionMismatch(version) == version # GF256_VERSION

\* Faulty variant: a repeated call is not recognized
AlreadyInitialized_Never == FALSE

\* Line 174: the test that short-circuits a repeated call
AlreadyInitialized == Initialized

Returns(version, status) ==
    lastCall' = << [version |-> version, before |-> Initialized, ret |-> status] >>

gf256_init_(version) ==
    /\ IF VersionMismatch(version)
       THEN /\ Returns(version, -1)
            /\ UNCHANGED <<Initialized, ctx, buildLog>>
       ELSE IF AlreadyInitialized
       THEN /\ Returns(version, 0)
            /\ UNCHANGED <<Initialized, ctx, buildLog>>
       ELSE /\ Initialized' = TRUE
            /\ IF ~IsLittleEndian
               THEN /\ Returns(version, -2)
                    /\ UNCHANGED <<ctx, buildLog>>
               ELSE /\ BuildTables
                    /\ Returns(version, 0)
    /\ UNCHANGED <<littleEndian, bufs, examined>>

(***************************************************************************)
(* Buffer primitives.  A buffer is a function on 1 .. MaxBytes; the first  *)
(* `bytes` entries are the ones a call may touch.  Source and destination  *)
(* are distinct buffers (GF256_RESTRICT).  Each primitive yields both      *)
(* buffers as the call leaves them.                                        *)
(***************************************************************************)
\* while (bytes) { x1[0] ^= y1[0]; x1++; y1++; bytes--; }
gf256_add_mem(z, x, bytes) ==
    [vz |-> [i \in DOMAIN z |-> IF i <= bytes THEN BitXor(z[i], x[i]) ELSE z[i]],
     vx |-> x]

\* table = GF256_MUL_TABLE + ((unsigned)y << 8); table[x8[0]]
TableRow(multab, y, xbyte) == multab[y][xbyte]

\* Faulty variant: y = 1 is treated like y = 0
MulAddShortcut_NoAdd(z, y, x, bytes) == [vz |-> z, vx |-> x]

\* Lines 259-263: the special cases y <= 1 of gf256_muladd_mem
MulAddShortcut(z, y, x, bytes) ==
    IF y = 1 THEN gf256_add_mem(z, x, bytes) ELSE [vz |-> z, vx |-> x]

gf256_muladd_mem(multab, z, y, x, bytes) ==
    IF y <= 1
    THEN MulAddShortcut(z, y, x, bytes)
    ELSE [vz |-> [i \in DOMAIN z |->
                    IF i <= bytes
                    THEN BitXor(z[i], TableRow(multab, y, x[i])) ELSE z[i]],
          vx |-> x]

\* memset(vz, 0, bytes)
memset(z, value, bytes) ==
    [i \in DOMAIN z |-> IF i <= bytes THEN value ELSE z[i]]

\* Lines 286-290: the special cases y <= 1 of gf256_mul_mem
MulShortcut(z, x, y, bytes) ==
    IF y = 0 THEN [vz |-> memset(z, 0, bytes), vx |-> x]
    ELSE [vz |-> z, vx |-> x]

gf256_mul_mem(multab, z, x, y, bytes) ==
    IF y <= 1
    THEN MulShortcut(z, x, y, bytes)
    ELSE [vz |-> [i \in DOMAIN z |->
                    IF i <= bytes THEN TableRow(multab, y, x[i]) ELSE z[i]],
          vx |-> x]

NoCall == "none"

\* The buffers before and after a call of primitive `name`
Called(name, y, bytes, z, x, after) ==
    /\ op' = [name |-> name, y |-> y, bytes |-> bytes]
    /\ old_vz' = z
    /\ old_vx' = x
    /\ vz' = after.vz
    /\ vx' = after.vx
    /\ UNCHANGED <<littleEndian, Initialized, ctx, lastCall, buildLog, examined>>

\* The primitives keep no state of their own and leave the field context
\* alone: a behaviour is followed up to the first primitive a caller invokes,
\* on any of the buffers it may pass.
NoPrimitiveYet == op.name = NoCall

CallAddMem ==
    /\ NoPrimitiveYet
    /\ \E z \in DstBufs, x \in SrcBufs, bytes \in 0 .. MaxBytes :
          Called("gf256_add_mem", 0, bytes, z, x, gf256_add_mem(z, x, bytes))

CallMulAddMem ==
    /\ NoPrimitiveYet
    /\ \E z \in DstBufs, x \in SrcBufs, y \in Scalars, bytes \in 0 .. MaxBytes :
          Called("gf256_muladd_mem", y, bytes, z, x,
                 gf256_muladd_mem(GF256_MUL_TABLE, z, y, x, bytes))

CallMulMem ==
    /\ NoPrimitiveYet
    /\ \E z \in DstBufs, x \in SrcBufs, y \in Scalars, bytes \in 0 .. MaxBytes :
          Called("gf256_mul_mem", y, bytes, z, x,
                 gf256_mul_mem(GF256_MUL_TABLE, z, x, y, bytes))

CallInit ==
    /\ NoPrimitiveYet
    /\ \E version \in Versions : gf256_init_(version)

\* A caller whose initialization call returned success picks a field
\* element whose products it goes on to read from the tables
Examine ==
    /\ lastCall # << >>
    /\ lastCall[1].ret = 0
    /\ examined = {}
    /\ \E x \in Byte : examined' = {x}
    /\ UNCHANGED <<littleEndian, Initialized, ctx, lastCall, buildLog, bufs>>

(***************************************************************************)
(* Initial state: zero-initialized statics, no call made yet               *)
(***************************************************************************)
ZeroBuf == [i \in 1 .. MaxBytes |-> 0]

Init ==
    /\ littleEndian \in BOOLEAN
    /\ Initialized = FALSE
    /\ Polynomial = 0
    /\ GF256_EXP_TABLE = [i \in ExpIndex |-> 0]
    /\ GF256_LOG_TABLE = [i \in Byte |-> 0]
    /\ GF256_MUL_TABLE = [y \in Byte |-> [x \in Byte |-> 0]]
    /\ GF256_DIV_TABLE = [y \in Byte |-> [x \in Byte |-> 0]]
    /\ GF256_INV_TABLE = [i \in Byte |-> 0]
    /\ lastCall = << >>
    /\ buildLog = << >>
    /\ op = [name |-> NoCall, y |-> 0, bytes |-> 0]
    /\ vz = ZeroBuf
    /\ vx = ZeroBuf
    /\ old_vz = ZeroBuf
    /\ old_vx = ZeroBuf
    /\ examined = {}

\* The library and its buffer primitives
Next ==
    \/ CallInit
    \/ CallAddMem
    \/ CallMulAddMem
    \/ CallMulMem

Spec == Init /\ [][Next]_vars

\* The one gf256_init() call a program makes before it uses the tables
InitOnce ==
    /\ ~Initialized
    /\ gf256_init_(GF256_VERSION)

\* The table builder, and a caller reading the finished tables
NextField ==
    \/ InitOnce
    \/ Examine

SpecField == Init /\ [][NextField]_vars

(***************************************************************************)
(* Properties                                                              *)
(***************************************************************************)
\* Some gf256_init_ call ran the table builder (lines 186-189) and returned 0
InitSucceeded == buildLog # << >>

\* The product as a caller reads it: mul(x, y) = GF256_MUL_TABLE[y][x]
mul(x, y) == GF256_MUL_TABLE[y][x]

\* Bitwise XOR of two bytes, tabulated once
XorRow(a) == SubSeq([b \in 1 .. 256 |-> BitXor(a, b - 1)], 1, 256)
XorSeq == SubSeq([a \in 1 .. 256 |-> XorRow(a - 1)], 1, 256)
Xor8(a, b) == XorSeq[a + 1][b + 1]

\* Reference product in GF(2)[t]/(poly): carry-less product, then reduction
RECURSIVE ClMul(_, _)
ClMul(a, b) ==
    IF b = 0 THEN 0
    ELSE BitXor(IF b % 2 = 1 THEN a ELSE 0, ClMul(2 * a, b \div 2))

RECURSIVE PolyReduce(_, _, _)
PolyReduce(v, poly, bit) ==
    IF bit < 8 THEN v
    ELSE PolyReduce(IF (v \div 2 ^ bit) % 2 = 1
                    THEN BitXor(v, poly * 2 ^ (bit - 8)) ELSE v,
                    poly, bit - 1)

RefMul(poly, x, y) == PolyReduce(ClMul(x, y), poly, 14)

\* C1: a gf256_init_ call returns 0 only if the polynomial and all tables
\* were built by that call or an earlier one, and on a runtime that is not
\* little-endian every call with the matching version returns -2.
C1_SuccessMeansBuilt ==
    lastCall # << >> =>
        /\ lastCall[1].ret = 0 => (buildLog = BuildOrder /\ Polynomial # 0)
        /\ (~littleEndian /\ lastCall[1].version = GF256_VERSION)
               => lastCall[1].ret = -2

\* C2: after successful initialization gf256_mul_mem(dst, src, y, n) leaves
\* dst[i] = MUL_TABLE[y][src[i]] for every i < n, for every scalar y
\* (0 and 1 included), whatever dst held before.
C2_MulMemIsProduct ==
    (InitSucceeded /\ op.name = "gf256_mul_mem") =>
        \A i \in 1 .. op.bytes : vz[i] = mul(old_vx[i], op.y)

\* C3 as stated: after successful initialization LOG_TABLE[EXP_TABLE[k]] = k
\* for every k in 0 .. 254, k = 0 included.
C3_LogInvertsExp ==
    InitSucceeded =>
        \A k \in 0 .. 254 : GF256_LOG_TABLE[GF256_EXP_TABLE[k]] = k

\* C3 as amended: after successful initialization LOG_TABLE[EXP_TABLE[k]] = k
\* for every k in 1 .. 254, and LOG_TABLE[EXP_TABLE[0]] = 255 (the logarithm
\* of 1 is stored as 255, which is 0 modulo the period 255).
C3_LogInvertsExpFrom1 ==
    InitSucceeded =>
        /\ \A k \in 1 .. 254 : GF256_LOG_TABLE[GF256_EXP_TABLE[k]] = k
        /\ GF256_LOG_TABLE[GF256_EXP_TABLE[0]] = 255

C3_Witness ==
    /\ InitSucceeded
    /\ GF256_EXP_TABLE[0] = 1
    /\ GF256_LOG_TABLE[1] = 255
    /\ GF256_LOG_TABLE[GF256_EXP_TABLE[254]] = 254

\* C4: on a little-endian runtime every gf256_init_ call with the matching
\* version returns 0, the four table-building steps run exactly once in
\* total, in order, during the first such call, and once built the
\* polynomial and every table stay as they are through every later step.
C4_BuiltExactlyOnce ==
    [][ /\ InitSucceeded => (ctx' = ctx /\ buildLog' = buildLog)
        /\ (littleEndian /\ lastCall' # << >>
                /\ lastCall'[1].version = GF256_VERSION)
             => (lastCall'[1].ret = 0 /\ buildLog' = BuildOrder) ]_vars

\* A repeated call with the matching version on a little-endian runtime
C4_Witness ==
    /\ littleEndian
    /\ lastCall # << >>
    /\ lastCall[1].version = GF256_VERSION
    /\ lastCall[1].before
    /\ lastCall[1].ret = 0
    /\ buildLog = BuildOrder

\* C5: a gf256_init_ call whose version differs from GF256_VERSION returns
\* -1 and leaves Initialized, the polynomial and every table unchanged,
\* whatever preceded it.
C5_MismatchTouchesNothing ==
    [][ (lastCall' # << >> /\ lastCall'[1].version # GF256_VERSION)
          => /\ lastCall'[1].ret = -1
             /\ Initialized' = Initialized
             /\ ctx' = ctx ]_vars

\* A mismatched call made after a successful initialization
C5_Witness ==
    /\ lastCall # << >>
    /\ lastCall[1].version # GF256_VERSION
    /\ lastCall[1].ret = -1
    /\ lastCall[1].before
    /\ InitSucceeded

\* C6: after successful initialization the products read from MUL_TABLE
\* satisfy the field axioms for all x, y, z in 0 .. 255: commutativity,
\* associativity, distributivity over XOR, mul(x, 1) = x, mul(x, 0) = 0.
\* (x is the examined element, which ranges over all of 0 .. 255.)
\* Below, mulx[z + 1] is mul(x, z) and xor_y[z + 1] is y XOR z, tabulated
\* once for the x and y at hand.
C6_FieldAxioms ==
    InitSucceeded =>
        \A x \in examined :
            LET mulx == SubSeq([z \in 1 .. 256 |-> mul(x, z - 1)], 1, 256)
            IN  /\ mul(x, 1) = x
                /\ mul(x, 0) = 0
                /\ \A y \in Byte :
                     LET xy == mul(x, y)
                         xor_y == XorSeq[y + 1]
                         xor_xy == XorSeq[xy + 1]
                     IN  /\ xy = mul(y, x)
                         /\ \A z \in Byte :
                              \* x * (y * z) = (x * y) * z
                              /\ mulx[GF256_MUL_TABLE[z][y] + 1]
                                     = GF256_MUL_TABLE[z][xy]
                              \* x * (y XOR z) = (x * y) XOR (x * z)
                              /\ mulx[xor_y[z + 1] + 1]
                                     = xor_xy[mulx[z + 1] + 1]

C6_Witness ==
    /\ InitSucceeded
    /\ examined = {83}
    /\ mul(83, 2) = 166

\* C7: after successful initialization MUL_TABLE[INV_TABLE[x]][x] = 1 for
\* every nonzero byte x, and INV_TABLE[0] equals DIV_TABLE[0][1], which is 0.
C7_Inverse ==
    InitSucceeded =>
        /\ \A x \in 1 .. 255 : mul(x, GF256_INV_TABLE[x]) = 1
        /\ GF256_INV_TABLE[0] = GF256_DIV_TABLE[0][1]
        /\ GF256_INV_TABLE[0] = 0

C7_Witness ==
    /\ InitSucceeded
    /\ GF256_INV_TABLE[2] # 0
    /\ mul(2, GF256_INV_TABLE[2]) = 1

\* C8: after successful initialization gf256_muladd_mem(dst, y, src, n)
\* leaves dst[i] = old dst[i] XOR MUL_TABLE[y][src[i]] for every i < n, for
\* every scalar y: y = 0 leaves dst unchanged, y = 1 gives what
\* gf256_add_mem(dst, src, n) gives, and src is left unchanged.
C8_MulAddMemIsProductSum ==
    (InitSucceeded /\ op.name = "gf256_muladd_mem") =>
        /\ \A i \in 1 .. op.bytes :
               vz[i] = BitXor(old_vz[i], mul(old_vx[i], op.y))
        /\ op.y = 0 => vz = old_vz
        /\ op.y = 1 => vz = gf256_add_mem(old_vz, old_vx, op.bytes).vz
        /\ vx = old_vx

C8_Witness ==
    /\ InitSucceeded
    /\ op.name = "gf256_muladd_mem"
    /\ op.y = 1
    /\ op.bytes = MaxBytes
    /\ vz # old_vz

\* C9: after successful initialization EXP_TABLE[LOG_TABLE[x]] = x for
\* every nonzero byte x: the doublings under the default polynomial visit
\* all 255 nonzero values.
C9_ExpInvertsLog ==
    InitSucceeded =>
        \A x \in 1 .. 255 : GF256_EXP_TABLE[GF256_LOG_TABLE[x]] = x

C9_Witness ==
    /\ InitSucceeded
    /\ GF256_LOG_TABLE[255] \in 1 .. 254
    /\ GF256_EXP_TABLE[GF256_LOG_TABLE[255]] = 255

\* C10: after successful initialization MUL_TABLE[y][x] is the carry-less
\* product of x and y reduced modulo the selected polynomial 0x14D, for all
\* x, y in 0 .. 255; every EXP_TABLE index log(x) + log(y) used for nonzero
\* x, y lies in 0 .. 510 and the product of two nonzero bytes is not 0.
\* (x is the examined element, which ranges over all of 0 .. 255.)
C10_MulIsPolynomialProduct ==
    InitSucceeded =>
        /\ Polynomial = 333
        /\ \A x \in examined : \A y \in Byte :
              /\ mul(x, y) = RefMul(333, x, y)
              /\ (x # 0 /\ y # 0) =>
                    /\ mul(x, y) # 0
                    /\ GF256_LOG_TABLE[x] + log_y(GF256_LOG_TABLE, y)
                           \in 0 .. 510

C10_Witness ==
    /\ InitSucceeded
    /\ examined = {202}
    /\ mul(202, 83) = RefMul(333, 202, 83)
    /\ mul(202, 83) > 1

====
